---- MODULE Spec2Model ----
(***************************************************************************)
(* Model of image_checker.py: ImageChecker (configuration check, per-image *)
(* check, e-mail notification, one check cycle) and main()'s hourly loop.  *)
(*                                                                         *)
(* Python values are encoded as follows.                                   *)
(*   - a str is a sequence of string tokens ("https://" is one token), so  *)
(*     that str.startswith and urljoin work on the text of the value;      *)
(*   - an optional value is <<>> for None and <<v>> for the value v;       *)
(*   - a tri-state result is one of "True", "False", "None";               *)
(*   - an exception is the name of its class.                              *)
(***************************************************************************)
EXTENDS Integers, Sequences, FiniteSets, TLC

VARIABLES
    entry,          \* "main": main() runs; "notify": send_email_notification is called directly
    env,            \* os.getenv values of EMAIL_SENDER, EMAIL_APP_PASSWORD, EMAIL_RECEIVER
    pc,             \* position of the single thread
    cycle,          \* number of check cycles started
    images,         \* src of each <img> of the parsed page, in document order
    idx,            \* position of the for loop over images
    broken_images,  \* the local list of check_website_images
    returned,       \* what the latest call of check_website_images returned (<<>> = [])
    pending,        \* the message being delivered by send_email_notification
    arg,            \* the argument of the latest call of send_email_notification
    outbox,         \* messages accepted by the SMTP server, whole run
    log,            \* lines logged since the latest "Starting image check..."
    fetched,        \* URLs requested with requests.get in the current cycle
    checked,        \* one record per image reference handled in the current cycle
    page_result,    \* how the page fetch of the current cycle ended
    handler_ran,    \* the except clause of check_website_images ran in the current cycle
    smtp_result,    \* how the latest SMTP dialogue ended
    slept,          \* seconds spent in completed time.sleep calls
    interrupted     \* a KeyboardInterrupt has been delivered

vars == <<entry, env, pc, cycle, images, idx, broken_images, returned, pending, arg,
          outbox, log, fetched, checked, page_result, handler_ran, smtp_result,
          slept, interrupted>>

---------------------------------------------------------------------------
(* Bounds of the model *)

MaxCycles == 2
MaxImages == 2
MaxRecords == 2

---------------------------------------------------------------------------
(* Program constants *)

MIN_WIDTH == 200
MIN_HEIGHT == 200
SLEEP_SECONDS == 3600

url == <<"https://", "tutor4science.com", "/">>
smtp_server == <<"smtp.gmail.com">>
smtp_port == 587

None == <<>>

---------------------------------------------------------------------------
(* Python semantics used by the program *)

\* bool(v) of an optional str: None and '' are falsy.
TruthyStr(v) == v # None /\ v[1] # ""

\* bool(v) of an optional int: None and 0 are falsy.
TruthyInt(v) == v # None /\ v[1] # 0

\* str(v) inside an f-string, for an optional int.
Str(v) == IF v = None THEN "None" ELSE ToString(v[1])

\* s.startswith(prefix), prefix being one token.
startswith(s, prefix) == Len(s) > 0 /\ s[1] = prefix

\* `except Exception` catches every exception whose class derives from
\* Exception; KeyboardInterrupt derives from BaseException only.
IsException_all(e) == TRUE
IsException(e) == e # "KeyboardInterrupt"

\* requests.compat.urljoin(self.url, src) for a src without scheme: a path is
\* resolved against the base; "//[" is a network location that urlsplit rejects.
urljoin_raises(src) == startswith(src, "//[")
urljoin(base, src) ==
    IF startswith(src, "/") THEN <<base[1], base[2]>> \o src
    ELSE base \o src

---------------------------------------------------------------------------
(* Inputs *)

EnvValues == {None, <<"">>, <<"set">>}

DataSrc == <<"data:image", "/png;base64,iVBORw0KGgo=">>
RelSrc  == <<"/", "logo.png">>
AbsSrc  == <<"https://", "cdn.example.com", "/", "banner.jpg">>
BadSrc  == <<"//[", "::1">>
Srcs    == {<<>>, DataSrc, RelSrc, AbsSrc, BadSrc}

Pages == UNION {[1..n -> Srcs] : n \in 0..MaxImages}

PageOutcomes ==
    [kind : {"response"}, status : {200, 500}, body : Pages, exc : {""}]
    \cup [kind : {"raise"}, status : {0}, body : {<<>>},
          exc : {"ConnectionError", "Timeout", "KeyboardInterrupt"}]

Sizes == {<<50, 50>>, <<200, 199>>, <<200, 200>>}

\* What the network and PIL do for one image URL.
ImageOutcomes ==
    [kind : {"status"}, status : {404, 500}, size : {<<0, 0>>}, verify : {TRUE}, exc : {""}]
    \cup [kind : {"raise"}, status : {0}, size : {<<0, 0>>}, verify : {TRUE},
          exc : {"ConnectionError", "KeyboardInterrupt"}]
    \cup [kind : {"undecodable"}, status : {200}, size : {<<0, 0>>}, verify : {TRUE},
          exc : {"UnidentifiedImageError"}]
    \cup [kind : {"decoded"}, status : {200}, size : Sizes, verify : BOOLEAN, exc : {""}]

SmtpOutcomes == {"ok", "connect", "starttls", "login", "send_message", "KeyboardInterrupt"}

SleepOutcomes == {"elapsed", "KeyboardInterrupt"}

BrokenRecords == {<<urljoin(url, RelSrc), <<200>>, <<200>>>>, <<AbsSrc, <<1024>>, <<768>>>>}
BrokenLists == UNION {[1..n -> BrokenRecords] : n \in 0..MaxRecords}

---------------------------------------------------------------------------
(* Log lines *)

\* about: the URL an f-string puts in the line; detail: its str(e).
Line(level, msg, about, detail) ==
    [level |-> level, msg |-> msg, about |-> about, detail |-> <<detail>>]

NoLine == <<>>

---------------------------------------------------------------------------
(* ImageChecker: pure parts *)

\* __init__, the validation: all([sender, password, receiver]).
config_valid_any(e) ==
    TruthyStr(e.sender) \/ TruthyStr(e.password) \/ TruthyStr(e.receiver)
config_valid(e) ==
    TruthyStr(e.sender) /\ TruthyStr(e.password) /\ TruthyStr(e.receiver)

is_base64_image_never(img_url) == FALSE
is_base64_image(img_url) == startswith(img_url, "data:image")

\* The value check_image_url returns or the exception that leaves it, with
\* what it logged and requested on the way.
Returns(result, width, height, lines, gets) ==
    [result |-> result, width |-> width, height |-> height,
     log |-> lines, fetched |-> gets, raised |-> ""]
Raises(e, gets) ==
    [result |-> "", width |-> None, height |-> None,
     log |-> NoLine, fetched |-> gets, raised |-> e]

\* An exception e raised inside the try block of check_image_url.
check_image_url_except(img_url, e, gets) ==
    IF IsException(e)
    THEN Returns("False", None, None,
                 <<Line("ERROR", "Error checking image", img_url, e)>>, gets)
    ELSE Raises(e, gets)

\* check_image_url with a failed verify() reporting the measured size.
check_image_url_keeps_size(img_url, o) ==
    IF is_base64_image(img_url)
    THEN Returns("True", None, None, NoLine, <<>>)
    ELSE LET gets == <<img_url>> IN
         CASE o.kind = "raise" -> check_image_url_except(img_url, o.exc, gets)
           [] o.kind = "status" -> Returns("False", None, None, NoLine, gets)
           [] o.kind = "undecodable" -> check_image_url_except(img_url, o.exc, gets)
           [] o.kind = "decoded" ->
                LET width == o.size[1]
                    height == o.size[2]
                IN  IF width >= MIN_WIDTH /\ height >= MIN_HEIGHT
                    THEN IF o.verify
                         THEN Returns("True", <<width>>, <<height>>, NoLine, gets)
                         ELSE Returns("False", <<width>>, <<height>>,
                                      <<Line("ERROR", "Error checking image", img_url,
                                             "SyntaxError")>>, gets)
                    ELSE Returns("None", <<width>>, <<height>>, NoLine, gets)

check_image_url(img_url, o) ==
    IF is_base64_image(img_url)
    THEN Returns("True", None, None, NoLine, <<>>)
    ELSE LET gets == <<img_url>> IN
         CASE o.kind = "raise" -> check_image_url_except(img_url, o.exc, gets)
           [] o.kind = "status" ->
                \* status_code != 200: falls through to the final return
                Returns("False", None, None, NoLine, gets)
           [] o.kind = "undecodable" ->
                \* Image.open raises
                check_image_url_except(img_url, o.exc, gets)
           [] o.kind = "decoded" ->
                LET width == o.size[1]
                    height == o.size[2]
                IN  IF width >= MIN_WIDTH /\ height >= MIN_HEIGHT
                    THEN IF o.verify
                         THEN Returns("True", <<width>>, <<height>>, NoLine, gets)
                         ELSE \* img.verify() raises
                              check_image_url_except(img_url, "SyntaxError", gets)
                    ELSE Returns("None", <<width>>, <<height>>, NoLine, gets)

\* The condition under which check_website_images appends to broken_images.
is_broken_main_image_any_failure(result, width, height) == result = "False"
is_broken_main_image(result, width, height) ==
    /\ result = "False"
    /\ TruthyInt(width)
    /\ TruthyInt(height)
    /\ width[1] >= MIN_WIDTH
    /\ height[1] >= MIN_HEIGHT

\* The source check_website_images passes to check_image_url.
needs_urljoin(img_url) ==
    ~(\/ startswith(img_url, "http://")
      \/ startswith(img_url, "https://")
      \/ startswith(img_url, "data:image"))

\* send_email_notification: the text of the message.
BodyHeader ==
    "The following images are not rendering properly (only main content images are checked):\n\n"

BodyLine(rec) == <<"- ">> \o rec[1] \o <<" (size: ", Str(rec[2]), "x", Str(rec[3]), ")\n">>

RECURSIVE BodyLines(_)
BodyLines(broken) ==
    IF broken = <<>> THEN <<>>
    ELSE BodyLine(Head(broken)) \o BodyLines(Tail(broken))

compose_drops_last(e, broken) ==
    [from |-> e.sender, to |-> e.receiver,
     subject |-> <<"Broken Images Found on ">> \o url,
     body |-> <<BodyHeader>> \o BodyLines(SubSeq(broken, 1, Len(broken) - 1))]
compose(e, broken) ==
    [from |-> e.sender, to |-> e.receiver,
     subject |-> <<"Broken Images Found on ">> \o url,
     body |-> <<BodyHeader>> \o BodyLines(broken)]

NoMessage == [from |-> None, to |-> None, subject |-> <<>>, body |-> <<>>]

\* check_website_images after the loop: notify, or log that all is well.
report_silent(broken) ==
    [notify |-> broken # <<>>, log |-> NoLine]
report(broken) ==
    [notify |-> broken # <<>>,
     log |-> IF broken # <<>> THEN NoLine
             ELSE <<Line("INFO", "All main content images are rendering properly", <<>>, "")>>]

\* The except clause of check_website_images.
check_website_images_except_reraise(e) ==
    [caught |-> FALSE, log |-> NoLine]
check_website_images_except(e) ==
    [caught |-> IsException(e),
     log |-> IF IsException(e)
             THEN <<Line("ERROR", "Error checking website", <<>>, e)>>
             ELSE NoLine]

\* The except clauses of main, in their order.
main_except(e) ==
    IF e = "KeyboardInterrupt"
    THEN [pc |-> "stopped", log |-> <<Line("INFO", "Script stopped by user", <<>>, "")>>]
    ELSE IF IsException(e)
    THEN [pc |-> "crashed", log |-> <<Line("ERROR", "Unexpected error", <<>>, e)>>]
    ELSE [pc |-> "died", log |-> NoLine]

---------------------------------------------------------------------------
(* Initial states *)

Envs == [sender : EnvValues, password : EnvValues, receiver : EnvValues]

FullEnv == [sender |-> <<"set">>, password |-> <<"set">>, receiver |-> <<"set">>]

NoOutcome == [kind |-> "none", status |-> 0, size |-> <<0, 0>>, verify |-> TRUE, exc |-> ""]

Init ==
    /\ entry \in {"main", "notify"}
    /\ env \in (IF entry = "main" THEN Envs ELSE {FullEnv})
    /\ pc = IF entry = "main" THEN "main" ELSE "call"
    /\ cycle = 0
    /\ images = <<>>
    /\ idx = 1
    /\ broken_images = <<>>
    /\ returned = <<>>
    /\ pending = NoMessage
    /\ arg = <<>>
    /\ outbox = <<>>
    /\ log = <<>>
    /\ fetched = <<>>
    /\ checked = <<>>
    /\ page_result = "none"
    /\ handler_ran = FALSE
    /\ smtp_result = "none"
    /\ slept = 0
    /\ interrupted = FALSE

---------------------------------------------------------------------------
(* Steps *)

\* An exception e leaves the try block of check_website_images, called from
\* the loop of main: the except clause of check_website_images takes it and
\* returns [], or it reaches the except clauses of main.
EscapesCheck(e, lines) ==
    LET h == check_website_images_except(e)
        m == main_except(e)
    IN  /\ log' = log \o lines \o (IF h.caught THEN h.log ELSE m.log)
        /\ pc' = IF h.caught THEN "sleep" ELSE m.pc
        /\ handler_ran' = h.caught
        /\ returned' = <<>>

\* main: checker = ImageChecker().
Construct ==
    /\ pc = "main"
    /\ IF config_valid(env)
       THEN /\ pc' = "loop"
            /\ log' = log
       ELSE LET m == main_except("ValueError") IN
            /\ pc' = m.pc
            /\ log' = log \o m.log
    /\ UNCHANGED <<entry, env, cycle, images, idx, broken_images, returned, pending, arg,
                   outbox, fetched, checked, page_result, handler_ran, smtp_result,
                   slept, interrupted>>

\* main: top of the loop, up to the requests.get of check_website_images.
StartCycle ==
    /\ pc = "loop"
    /\ cycle < MaxCycles
    /\ cycle' = cycle + 1
    /\ log' = <<Line("INFO", "Starting image check...", <<>>, "")>>
    /\ pc' = "page_fetch"
    /\ images' = <<>>
    /\ idx' = 1
    /\ broken_images' = <<>>
    /\ returned' = <<>>
    /\ pending' = NoMessage
    /\ arg' = <<>>
    /\ fetched' = <<>>
    /\ checked' = <<>>
    /\ page_result' = "none"
    /\ handler_ran' = FALSE
    /\ smtp_result' = "none"
    /\ UNCHANGED <<entry, env, outbox, slept, interrupted>>

\* check_website_images: requests.get(self.url), the parse, find_all('img').
FetchPage(o) ==
    /\ pc = "page_fetch"
    /\ fetched' = fetched \o <<url>>
    /\ interrupted' = (interrupted \/ o.exc = "KeyboardInterrupt")
    /\ IF o.kind = "raise"
       THEN /\ EscapesCheck(o.exc, NoLine)
            /\ page_result' = IF o.exc = "KeyboardInterrupt" THEN "interrupted" ELSE "raised"
            /\ UNCHANGED <<images, idx, broken_images>>
       ELSE \* the status code of the response is not looked at
            /\ page_result' = ToString(o.status)
            /\ images' = o.body
            /\ idx' = 1
            /\ broken_images' = <<>>
            /\ pc' = "images"
            /\ UNCHANGED <<log, handler_ran, returned>>
    /\ UNCHANGED <<entry, env, cycle, pending, arg, outbox, checked, smtp_result, slept>>

\* check_website_images: one iteration of the loop over images.
CheckImage(o) ==
    /\ pc = "images"
    /\ idx <= Len(images)
    /\ LET src == images[idx] IN
       IF src = <<>>
       THEN \* no src: continue
            /\ idx' = idx + 1
            /\ UNCHANGED <<pc, log, handler_ran, returned, broken_images, fetched, checked,
                           interrupted>>
       ELSE IF needs_urljoin(src) /\ urljoin_raises(src)
       THEN /\ EscapesCheck("ValueError", NoLine)
            /\ UNCHANGED <<idx, broken_images, fetched, checked, interrupted>>
       ELSE LET img_url == IF needs_urljoin(src) THEN urljoin(url, src) ELSE src
                r == check_image_url(img_url, o)
                did_get == r.fetched # <<>>
                rec == [src |-> src, url |-> img_url,
                        outcome |-> IF did_get THEN o ELSE NoOutcome,
                        result |-> r.result, width |-> r.width, height |-> r.height]
                broken == is_broken_main_image(r.result, r.width, r.height)
            IN  /\ fetched' = fetched \o r.fetched
                /\ checked' = Append(checked, rec)
                /\ interrupted' = (interrupted \/ (did_get /\ o.exc = "KeyboardInterrupt"))
                /\ IF r.raised # ""
                   THEN /\ EscapesCheck(r.raised, r.log)
                        /\ UNCHANGED <<idx, broken_images>>
                   ELSE /\ broken_images' =
                              IF broken
                              THEN Append(broken_images, <<img_url, r.width, r.height>>)
                              ELSE broken_images
                        /\ log' = log \o r.log \o
                              (IF broken
                               THEN <<Line("WARNING", "Broken main image found", img_url,
                                           Str(r.width) \o "x" \o Str(r.height))>>
                               ELSE NoLine)
                        /\ idx' = idx + 1
                        /\ UNCHANGED <<pc, handler_ran, returned>>
    /\ UNCHANGED <<entry, env, cycle, images, pending, arg, outbox, page_result,
                   smtp_result, slept>>

\* send_email_notification up to the SMTP dialogue; `after` is where the
\* caller continues when the call returns at once.
CallSend(broken, after) ==
    /\ arg' = broken
    /\ smtp_result' = "none"
    /\ IF broken = <<>>
       THEN /\ pending' = NoMessage
            /\ pc' = after
       ELSE /\ pending' = compose(env, broken)
            /\ pc' = "smtp"

\* check_website_images: after the loop.
FinishCheck ==
    /\ pc = "images"
    /\ idx > Len(images)
    /\ LET r == report(broken_images) IN
       /\ log' = log \o r.log
       /\ IF r.notify
          THEN CallSend(broken_images, "sleep")
          ELSE /\ pc' = "sleep"
               /\ UNCHANGED <<arg, pending, smtp_result>>
    /\ returned' = IF pc' = "sleep" THEN broken_images ELSE returned
    /\ UNCHANGED <<entry, env, cycle, images, idx, broken_images, outbox, fetched, checked,
                   page_result, handler_ran, slept, interrupted>>

\* send_email_notification: SMTP(), starttls, login, send_message.
SendMail(o) ==
    /\ pc = "smtp"
    /\ smtp_result' = o
    /\ interrupted' = (interrupted \/ o = "KeyboardInterrupt")
    /\ LET e == IF o = "ok" THEN ""
                ELSE IF o = "KeyboardInterrupt" THEN o ELSE "SMTPException"
           back == IF entry = "main" THEN "sleep" ELSE "returned"
       IN  IF e = ""
           THEN /\ outbox' = Append(outbox, pending)
                /\ log' = Append(log, Line("INFO", "Email notification sent successfully",
                                           <<>>, ""))
                /\ pc' = back
                /\ returned' = broken_images
                /\ UNCHANGED handler_ran
           ELSE IF IsException(e)
           THEN /\ log' = Append(log, Line("ERROR", "Error sending email", <<>>, e))
                /\ pc' = back
                /\ returned' = broken_images
                /\ UNCHANGED <<outbox, handler_ran>>
           ELSE IF entry = "main"
           THEN /\ EscapesCheck(e, NoLine)
                /\ UNCHANGED outbox
           ELSE /\ pc' = "raised"
                /\ UNCHANGED <<outbox, log, returned, handler_ran>>
    /\ UNCHANGED <<entry, env, cycle, images, idx, broken_images, pending, arg, fetched,
                   checked, page_result, slept>>

\* main: time.sleep(3600).
Sleep(o) ==
    /\ pc = "sleep"
    /\ interrupted' = (interrupted \/ o = "KeyboardInterrupt")
    /\ IF o = "elapsed"
       THEN /\ slept' = slept + SLEEP_SECONDS
            /\ pc' = "loop"
            /\ log' = log
       ELSE LET m == main_except(o) IN
            /\ pc' = m.pc
            /\ log' = log \o m.log
            /\ slept' = slept
    /\ UNCHANGED <<entry, env, cycle, images, idx, broken_images, returned, pending, arg,
                   outbox, fetched, checked, page_result, handler_ran, smtp_result>>

\* A direct call checker.send_email_notification(broken).
CallNotify(broken) ==
    /\ pc = "call"
    /\ CallSend(broken, "returned")
    /\ UNCHANGED <<entry, env, cycle, images, idx, broken_images, returned, outbox, log,
                   fetched, checked, page_result, handler_ran, slept, interrupted>>

Next ==
    \/ Construct
    \/ StartCycle
    \/ \E o \in PageOutcomes : FetchPage(o)
    \/ \E o \in ImageOutcomes : CheckImage(o)
    \/ FinishCheck
    \/ \E o \in SmtpOutcomes : SendMail(o)
    \/ \E o \in SleepOutcomes : Sleep(o)
    \/ \E broken \in BrokenLists : CallNotify(broken)

Spec == Init /\ [][Next]_vars

---------------------------------------------------------------------------
(* Vocabulary of the properties *)

Logged(level, msg) == \E i \in DOMAIN log : log[i].level = level /\ log[i].msg = msg

LoggedAbout(u) == \E i \in DOMAIN log : log[i].about = u

Listed(u, list) == \E i \in DOMAIN list : list[i][1] = u

Requested(u) == \E i \in DOMAIN fetched : fetched[i] = u

Missing(v) == v = <<>> \/ v = <<"">>

Big(size) == size[1] >= 200 /\ size[2] >= 200

\* The fetch of the image failed: non-200, network error, undecodable payload,
\* or a payload of main-content size that does not pass verification.
FetchFailed(o) ==
    \/ o.kind = "status"
    \/ o.kind = "raise" /\ o.exc # "KeyboardInterrupt"
    \/ o.kind = "undecodable"
    \/ o.kind = "decoded" /\ Big(o.size) /\ ~o.verify

\* The lines of a message body after its header: each ends with a token
\* that ends in a newline.
RECURSIVE SplitLines(_, _)
SplitLines(tokens, current) ==
    IF tokens = <<>> THEN (IF current = <<>> THEN <<>> ELSE <<current>>)
    ELSE IF Head(tokens) = ")\n"
    THEN <<Append(current, Head(tokens))>> \o SplitLines(Tail(tokens), <<>>)
    ELSE SplitLines(Tail(tokens), Append(current, Head(tokens)))

\* body lists exactly the records of list, one line each, in order.
BodyMatches(body, list) ==
    /\ Len(body) >= 1
    /\ LET lines == SplitLines(Tail(body), <<>>) IN
       /\ Len(lines) = Len(list)
       /\ \A i \in DOMAIN list :
            lines[i] = <<"- ">> \o list[i][1]
                       \o <<" (size: ", ToString(list[i][2][1]), "x",
                            ToString(list[i][3][1]), ")\n">>

CycleEnded == entry = "main" /\ pc = "sleep"

---------------------------------------------------------------------------
(* Properties *)

\* C1 as stated: every cycle that ends with zero broken images, a cycle whose
\* page fetch failed included, sent no email and logged the "all images
\* rendering" line.
CleanCycleAlwaysLogsAllOk ==
    (CycleEnded /\ returned = <<>>) =>
        /\ smtp_result # "ok"
        /\ Logged("INFO", "All main content images are rendering properly")

\* C1 amended: a cycle that reaches the end of check_website_images without its
\* except clause running and with zero broken images sent no email and logged
\* the "all images rendering" line; a cycle whose except clause ran (page fetch
\* or URL resolution raised) sent no email, returned the empty list and logged
\* the error line instead of the "all images rendering" line.
CleanCycleLogsAllOkUnlessCheckFailed ==
    /\ (CycleEnded /\ returned = <<>> /\ ~handler_ran) =>
          /\ smtp_result # "ok"
          /\ outbox = <<>>
          /\ Logged("INFO", "All main content images are rendering properly")
    /\ (CycleEnded /\ handler_ran) =>
          /\ returned = <<>>
          /\ smtp_result # "ok"
          /\ outbox = <<>>
          /\ Logged("ERROR", "Error checking website")
          /\ ~Logged("INFO", "All main content images are rendering properly")

CleanCycleWitness ==
    /\ CycleEnded /\ returned = <<>> /\ ~handler_ran
    /\ Len(checked) = 2
    /\ checked[1].src = DataSrc
    /\ checked[2].result = "None"
    /\ Logged("INFO", "All main content images are rendering properly")

\* C2: an image whose fetch failed and for which check_image_url reported no
\* width and height is never in the broken-image list, in what
\* check_website_images returns, or in what it hands to the email step.
FailedUnmeasuredNeverReported ==
    entry = "main" =>
        \A i \in DOMAIN checked :
            (/\ FetchFailed(checked[i].outcome)
             /\ checked[i].width = None
             /\ checked[i].height = None) =>
                /\ ~Listed(checked[i].url, broken_images)
                /\ ~Listed(checked[i].url, returned)
                /\ ~Listed(checked[i].url, arg)

FailedUnmeasuredWitness ==
    /\ CycleEnded /\ cycle = 2
    /\ Len(checked) = 2
    /\ checked[1].outcome.kind = "status" /\ checked[1].url = AbsSrc
    /\ checked[2].outcome.kind = "undecodable"
    /\ checked[1].result = "False" /\ checked[1].width = None

\* C3: an inline-encoded image reference (src starting with data:image) is not
\* requested over HTTP, keeps its src as it is, and is never listed as broken.
InlineNeverFetchedNorReported ==
    entry = "main" =>
        \A i \in DOMAIN checked :
            (Len(checked[i].src) > 0 /\ checked[i].src[1] = "data:image") =>
                /\ checked[i].url = checked[i].src
                /\ checked[i].outcome = NoOutcome
                /\ ~Requested(checked[i].src)
                /\ checked[i].result = "True"
                /\ ~Listed(checked[i].src, broken_images)
                /\ ~Listed(checked[i].src, returned)

InlineWitness ==
    /\ CycleEnded
    /\ Len(checked) = 2
    /\ checked[1].src = DataSrc
    /\ checked[2].src = RelSrc /\ Requested(urljoin(url, RelSrc))

\* C4 as stated: a call of send_email_notification with a non-empty list that
\* returned has sent exactly one email, listing the records of the list.
ExactlyOneEmailPerBrokenList ==
    (entry = "notify" /\ pc = "returned" /\ arg # <<>>) =>
        /\ Len(outbox) = 1
        /\ BodyMatches(outbox[1].body, arg)

\* C4 amended: a call of send_email_notification with a non-empty list sends at
\* most one email: exactly one when every SMTP step succeeded, to the configured
\* recipient and with one body line per record, in list order, giving its URL
\* and WxH; none when a step failed, and then the failure is logged and the
\* call returns.
AtMostOneEmailPerBrokenList ==
    entry = "notify" =>
        /\ Len(outbox) <= 1
        /\ (outbox # <<>>) <=> (smtp_result = "ok")
        /\ (outbox # <<>>) =>
              /\ arg # <<>>
              /\ outbox[1].to = env.receiver
              /\ outbox[1].from = env.sender
              /\ BodyMatches(outbox[1].body, arg)
        /\ (smtp_result \in {"connect", "starttls", "login", "send_message"}) =>
              /\ pc = "returned"
              /\ Logged("ERROR", "Error sending email")
        /\ (pc = "returned" /\ arg # <<>>) => smtp_result # "none"

OneEmailWitness ==
    /\ entry = "notify" /\ pc = "returned"
    /\ Len(arg) = 2 /\ arg[1] # arg[2]
    /\ smtp_result = "ok"
    /\ Len(outbox) = 1

\* C5: with a sender, credential or recipient value absent or empty, main never
\* enters the loop: no cycle, no request, no email, no sleep; the run ends in
\* main's handler with the configuration error logged.
MissingConfigNeverStarts ==
    (entry = "main"
     /\ (Missing(env.sender) \/ Missing(env.password) \/ Missing(env.receiver))) =>
        /\ pc \in {"main", "crashed"}
        /\ cycle = 0
        /\ fetched = <<>>
        /\ checked = <<>>
        /\ outbox = <<>>
        /\ slept = 0
        /\ (pc = "crashed") =>
              (\E i \in DOMAIN log : log[i].detail = <<"ValueError">>)

MissingConfigWitness ==
    /\ entry = "main" /\ pc = "crashed"
    /\ env.sender = <<"set">> /\ env.password = <<"">> /\ env.receiver = <<"set">>

\* C6: after a network or timeout error of the page fetch the error is logged,
\* the cycle has ended with the empty list and no email, nothing propagated to
\* main, and the loop goes on: the sleep can elapse and the next cycle can start.
PageFetchFailureRecovered ==
    (entry = "main" /\ page_result = "raised") =>
        /\ pc \in {"sleep", "loop", "stopped"}
        /\ (pc = "stopped") => interrupted
        /\ handler_ran
        /\ returned = <<>>
        /\ checked = <<>>
        /\ smtp_result = "none"
        /\ outbox = <<>>
        /\ Logged("ERROR", "Error checking website")
        /\ (pc = "sleep") => ENABLED Sleep("elapsed")
        /\ (pc = "loop") => slept >= SLEEP_SECONDS
        /\ (pc = "loop" /\ cycle < MaxCycles) => ENABLED StartCycle

PageFetchFailureWitness ==
    /\ entry = "main" /\ page_result = "raised"
    /\ pc = "loop" /\ cycle = 1 /\ slept = SLEEP_SECONDS

\* C7: a page answered with a non-200 status is a page-fetch error: none of the
\* images of its body is requested or checked, and the cycle ends with an error
\* logged.
NonOkPageIsFetchError ==
    (entry = "main" /\ page_result = "500") =>
        /\ checked = <<>>
        /\ fetched = <<url>>
        /\ CycleEnded => Logged("ERROR", "Error checking website")

\* C8: every image whose fetch failed has a log line naming it.
EveryImageFailureLogged ==
    entry = "main" =>
        \A i \in DOMAIN checked :
            FetchFailed(checked[i].outcome) => LoggedAbout(checked[i].url)

\* C9: once an interrupt has been delivered, main has logged the stop as its
\* last line and nothing more happens: no handler of a step swallowed it. An
\* interrupt during the SMTP dialogue of a direct call leaves the call.
InterruptStopsLoop ==
    /\ (entry = "main" /\ interrupted) =>
          /\ pc = "stopped"
          /\ log # <<>>
          /\ log[Len(log)].msg = "Script stopped by user"
          /\ ~ENABLED Next
    /\ (entry = "notify" /\ interrupted) =>
          /\ pc = "raised"
          /\ outbox = <<>>
          /\ ~ENABLED Next

InterruptWitness ==
    /\ entry = "main" /\ interrupted /\ pc = "stopped"
    /\ cycle = 2
    /\ Len(checked) = 2
    /\ checked[2].outcome.exc = "KeyboardInterrupt"

\* C10: in the monitor loop the broken-image list is always empty: every result
\* False of check_image_url comes without width and height, also for an image
\* measured as main content that fails verification; so the email step is never
\* entered and no email is sent.
BrokenListAlwaysEmpty ==
    entry = "main" =>
        /\ broken_images = <<>>
        /\ returned = <<>>
        /\ arg = <<>>
        /\ pending = NoMessage
        /\ pc # "smtp"
        /\ smtp_result = "none"
        /\ outbox = <<>>
        /\ \A i \in DOMAIN checked :
              checked[i].result = "False" =>
                  checked[i].width = None /\ checked[i].height = None

BrokenListEmptyWitness ==
    /\ CycleEnded /\ cycle = 2
    /\ Len(checked) = 2
    /\ checked[1].outcome.kind = "decoded" /\ Big(checked[1].outcome.size)
    /\ ~checked[1].outcome.verify
    /\ checked[2].outcome.kind = "status"
    /\ Logged("INFO", "All main content images are rendering properly")

====
